---------------------------- MODULE Spec2Model ----------------------------
(***************************************************************************)
(* Model of the group protection bot of src/bot.py (RenderCompatibleBot). *)
(*                                                                         *)
(* Texts are sequences of characters; a character is a one-element string  *)
(* ("a", "A", " "), and "MATH_BOLD_A" stands for the single code point     *)
(* U+1D400, an uppercase letter that str.lower() leaves unchanged.         *)
(*                                                                         *)
(* Three specifications share the variables:                               *)
(*   Spec        the handlers of the bot acting on the database tables;    *)
(*   SpecDetect  detect_suspicious_content applied to bounded message texts;*)
(*   SpecScore   calculate_risk_score applied to bounded risk factors.     *)
(***************************************************************************)
EXTENDS Integers, Sequences, FiniteSets

VARIABLES
    owner_id,      \* self.owner_id, set once from the configuration
    groups,        \* table groups: group_id -> row or NoRow
    activities,    \* table activities: rows in insertion order
    alerts,        \* table alerts: rows in insertion order
    last,          \* the update handled last: its inputs, calls and results
    probe          \* SpecDetect / SpecScore: the input and result of the function

vars == <<owner_id, groups, activities, alerts, last, probe>>

(***************************************************************************)
(* Bounds of the model.                                                    *)
(***************************************************************************)
MaxRows == 1            \* rows kept in table activities and in table alerts
MaxMembers == 11        \* longest member list the platform yields in Spec
MaxTokens == 20         \* SpecDetect: most tokens of a generated text
MaxDistinct == 10       \* SpecDetect: most distinct tokens of a generated text
MaxCaps == 15           \* SpecDetect: longest run of one character
MaxSuspicious == 10     \* SpecScore: most suspicious members
MaxJoins == 21          \* SpecScore: most recent joins
MaxBots == 6            \* SpecScore: most bots
MaxAdminIssues == 1     \* SpecScore: most admin issues
MaxRecentAlerts == 25   \* SpecScore: most alerts of the last 24 hours

(***************************************************************************)
(* Characters and texts: str.lower, str.isupper, the `in` operator on      *)
(* strings and str.split.                                                  *)
(***************************************************************************)
AsciiUpper ==
    {"A", "B", "C", "D", "E", "F", "G", "H", "I", "J", "K", "L", "M",
     "N", "O", "P", "Q", "R", "S", "T", "U", "V", "W", "X", "Y", "Z"}

\* Uppercase letters without a lowercase mapping: lower() keeps them.
UncasedUpper == {"MATH_BOLD_A"}

Whitespace == {" ", "\n"}

Lower(c) ==
    CASE c = "A" -> "a" [] c = "B" -> "b" [] c = "C" -> "c" [] c = "D" -> "d"
      [] c = "E" -> "e" [] c = "F" -> "f" [] c = "G" -> "g" [] c = "H" -> "h"
      [] c = "I" -> "i" [] c = "J" -> "j" [] c = "K" -> "k" [] c = "L" -> "l"
      [] c = "M" -> "m" [] c = "N" -> "n" [] c = "O" -> "o" [] c = "P" -> "p"
      [] c = "Q" -> "q" [] c = "R" -> "r" [] c = "S" -> "s" [] c = "T" -> "t"
      [] c = "U" -> "u" [] c = "V" -> "v" [] c = "W" -> "w" [] c = "X" -> "x"
      [] c = "Y" -> "y" [] c = "Z" -> "z"
      [] OTHER -> c

IsUpper(c) == c \in AsciiUpper \cup UncasedUpper

\* text.lower()
LowerStr(s) == [i \in 1..Len(s) |-> Lower(s[i])]

\* keyword in text
Contains(text, keyword) ==
    \E i \in 1..(Len(text) - Len(keyword) + 1) :
        SubSeq(text, i, i + Len(keyword) - 1) = keyword

\* any(keyword in text for keyword in words)
AnyIn(words, text) == \E k \in 1..Len(words) : Contains(text, words[k])

\* sum(1 for c in text if c.isupper())
UpperCount(text) == Cardinality({i \in 1..Len(text) : IsUpper(text[i])})

\* The positions where a token of text.split() starts.
TokenStarts(text) ==
    {i \in 1..Len(text) :
        /\ text[i] \notin Whitespace
        /\ (i = 1 \/ text[i - 1] \in Whitespace)}

\* The token of text.split() that starts at position i.
TokenAt(text, i) ==
    LET ends == {j \in i..Len(text) :
                    j = Len(text) \/ text[j + 1] \in Whitespace}
        e == CHOOSE j \in ends : \A k \in ends : j <= k
    IN  SubSeq(text, i, e)

\* set(text.split())
SplitSet(text) == {TokenAt(text, i) : i \in TokenStarts(text)}

(***************************************************************************)
(* RenderCompatibleBot.__init__: the risk patterns.                        *)
(***************************************************************************)
suspicious_keywords ==
    << <<"h", "t", "t", "p", ":", "/", "/">>,
       <<"h", "t", "t", "p", "s", ":", "/", "/">>,
       <<"t", ".", "m", "e", "/">>,
       <<"b", "u", "y", " ", "n", "o", "w">>,
       <<"l", "i", "m", "i", "t", "e", "d", " ", "o", "f", "f", "e", "r">>,
       <<"c", "l", "i", "c", "k", " ", "h", "e", "r", "e">>,
       <<"e", "a", "r", "n", " ", "m", "o", "n", "e", "y">>,
       <<"m", "a", "k", "e", " ", "m", "o", "n", "e", "y">>,
       <<"i", "n", "v", "e", "s", "t", "m", "e", "n", "t">>,
       <<"b", "i", "t", "c", "o", "i", "n">>,
       <<"c", "r", "y", "p", "t", "o">>,
       <<"f", "r", "e", "e", " ", "m", "o", "n", "e", "y">> >>

violent_words ==
    << <<"k", "i", "l", "l">>,
       <<"a", "t", "t", "a", "c", "k">>,
       <<"b", "o", "m", "b">>,
       <<"v", "i", "o", "l", "e", "n", "c", "e">>,
       <<"h", "u", "r", "t">>,
       <<"d", "e", "s", "t", "r", "o", "y">>,
       <<"h", "a", "r", "m">> >>

(***************************************************************************)
(* detect_suspicious_content.  A message is [text_none, text]: text_none   *)
(* is message.text being None.  Each test reads `text`, the lower-cased    *)
(* message text.                                                           *)
(***************************************************************************)
has_spam_keyword(text) == AnyIn(suspicious_keywords, text)

\* Variant: a violent word counts only as a whole token of the text.
has_violent_token(text) ==
    \E k \in 1..Len(violent_words) : violent_words[k] \in SplitSet(text)

has_violent_word(text) == AnyIn(violent_words, text)

\* len(text) > 10 and sum(...) / len(text) > 0.7
is_excessive_caps(text) ==
    Len(text) > 10 /\ 10 * UpperCount(text) > 7 * Len(text)

\* len(text) > 50 and len(set(text.split())) < 10
is_repetitive(text) ==
    Len(text) > 50 /\ Cardinality(SplitSet(text)) < 10

\* Variant: the four tests append in the opposite order.
detect_suspicious_content_reversed(message) ==
    IF message.text_none \/ Len(message.text) = 0
    THEN << >>
    ELSE LET text == LowerStr(message.text)
         IN  (IF is_repetitive(text) THEN <<"repetitive_content">> ELSE << >>)
             \o (IF is_excessive_caps(text) THEN <<"excessive_caps">> ELSE << >>)
             \o (IF has_violent_word(text) THEN <<"violent_content">> ELSE << >>)
             \o (IF has_spam_keyword(text) THEN <<"spam_links">> ELSE << >>)

detect_suspicious_content(message) ==
    IF message.text_none \/ Len(message.text) = 0
    THEN << >>
    ELSE LET text == LowerStr(message.text)
         IN  (IF has_spam_keyword(text) THEN <<"spam_links">> ELSE << >>)
             \o (IF has_violent_word(text) THEN <<"violent_content">> ELSE << >>)
             \o (IF is_excessive_caps(text) THEN <<"excessive_caps">> ELSE << >>)
             \o (IF is_repetitive(text) THEN <<"repetitive_content">> ELSE << >>)

(***************************************************************************)
(* calculate_risk_score.  risk_factors holds the keys the scan sets;       *)
(* suspicious_members is a list, of which the score reads the length.      *)
(* Every key is present and every value an integer, so the except branch   *)
(* (return 50) is not taken.                                               *)
(***************************************************************************)
Min(a, b) == IF a < b THEN a ELSE b

joins_weight(recent_joins) ==
    IF recent_joins > 20 THEN 20 ELSE IF recent_joins > 10 THEN 10 ELSE 0

\* Variant: the two bot weights exchanged.
bots_weight_exchanged(bot_count) ==
    IF bot_count > 5 THEN 5 ELSE IF bot_count > 2 THEN 15 ELSE 0

bots_weight(bot_count) ==
    IF bot_count > 5 THEN 15 ELSE IF bot_count > 2 THEN 5 ELSE 0

raw_score(risk_factors) ==
    Len(risk_factors.suspicious_members) * 10
    + joins_weight(risk_factors.recent_joins)
    + bots_weight(risk_factors.bot_count)
    + risk_factors.admin_issues * 10
    + risk_factors.recent_alerts * 3

\* Variant: the sum of the weights, returned without min(score, 100).
calculate_risk_score_unclamped(risk_factors) == raw_score(risk_factors)

calculate_risk_score(risk_factors) == Min(raw_score(risk_factors), 100)

\* update_group_status: the status stored for a risk score.
status_of(risk_score) ==
    IF risk_score > 70 THEN "risk"
    ELSE IF risk_score > 30 THEN "warning"
    ELSE "safe"


(***************************************************************************)
(* The state before any update: an empty database, nothing handled.        *)
(***************************************************************************)
Groups == {1}

NoRow == [present |-> FALSE]

NoUpdate == [op |-> "none"]

ProbeOff == [pc |-> "off"]

\* OWNER_ID is any integer string, "0" included (Config.load_config).
OwnerIds == {0, 100}

TablesEmpty ==
    /\ groups = [g \in Groups |-> NoRow]
    /\ activities = << >>
    /\ alerts = << >>
    /\ last = NoUpdate

(***************************************************************************)
(* SpecDetect: detect_suspicious_content on generated message texts.       *)
(***************************************************************************)
Rep(c, n) == [i \in 1..n |-> c]

DigitChar == <<"0", "1", "2", "3", "4", "5", "6", "7", "8", "9">>

Digits(j) == <<DigitChar[((j \div 10) % 10) + 1], DigitChar[(j % 10) + 1]>>

\* The j-th of k distinct tokens made from one base word.
TokenOf(base, j, k) == IF k = 1 THEN base ELSE base \o Digits(j)

RECURSIVE TokensText(_, _, _)
\* n tokens separated by single spaces, cycling through k distinct tokens.
TokensText(base, n, k) ==
    IF n = 0 THEN << >>
    ELSE IF n = 1 THEN TokenOf(base, 0, k)
    ELSE TokensText(base, n - 1, k) \o <<" ">> \o TokenOf(base, (n - 1) % k, k)

BaseWords ==
    { <<"a">>,
      <<"h", "e", "l", "l", "o">>,
      <<"l", "i", "m", "i", "t", "e", "d", "o", "f", "f", "e", "r">>,
      <<"S", "k", "i", "l", "l">>,
      <<"B", "O", "M", "B">>,
      <<"H", "T", "T", "P", ":", "/", "/", "x">>,
      <<"C", "r", "y", "p", "t", "O">> }

SampleTexts ==
    { << >>,
      <<"h", "e", "l", "l", "o", ",", " ", "n", "i", "c", "e", " ",
        "t", "o", " ", "m", "e", "e", "t", " ", "y", "o", "u">>,
      <<"I", " ", "w", "i", "l", "l", " ", "K", "I", "L", "L", " ",
        "y", "o", "u">>,
      <<"B", "u", "y", " ", "N", "o", "w">>,
      <<"b", "u", "y", "\n", "n", "o", "w">>,
      <<"m", "y", " ", "s", "k", "i", "l", "l">>,
      <<"k", "i", "l">> }

DetectTexts ==
    {TokensText(b, n, k) : b \in BaseWords, n \in 0..MaxTokens, k \in 1..MaxDistinct}
    \cup {Rep(u, n) \o Rep(f, m) :
            u \in {"A", "MATH_BOLD_A"}, f \in {"!", "a", " "},
            n \in 0..MaxCaps, m \in 0..MaxCaps}
    \cup SampleTexts

DetectInputs ==
    {[text_none |-> TRUE, text |-> << >>]}
    \cup {[text_none |-> FALSE, text |-> t] : t \in DetectTexts}

InitDetect ==
    /\ owner_id = 100
    /\ TablesEmpty
    /\ probe \in {[pc |-> "input", message |-> m, patterns |-> << >>] :
                    m \in DetectInputs}

DetectStep ==
    /\ probe.pc = "input"
    /\ probe' = [probe EXCEPT !.pc = "done",
                              !.patterns = detect_suspicious_content(probe.message)]
    /\ UNCHANGED <<owner_id, groups, activities, alerts, last>>

SpecDetect == InitDetect /\ [][DetectStep]_vars

(***************************************************************************)
(* SpecScore: calculate_risk_score and the status derived from the score,  *)
(* on generated risk factors.                                              *)
(***************************************************************************)
SomeMember == [id |-> <<0, 1>>, username_none |-> TRUE, username |-> << >>]

ScoreInputs ==
    {[suspicious_members |-> Rep(SomeMember, s),
      recent_joins |-> j,
      bot_count |-> b,
      admin_issues |-> a,
      recent_alerts |-> r,
      member_count |-> 0,
      risk_score |-> 0] :
        s \in 0..MaxSuspicious, j \in 0..MaxJoins, b \in 0..MaxBots,
        a \in 0..MaxAdminIssues, r \in 0..MaxRecentAlerts}

InitScore ==
    /\ owner_id = 100
    /\ TablesEmpty
    /\ probe \in {[pc |-> "input", risk_factors |-> rf, status |-> "safe"] :
                    rf \in ScoreInputs}

ScoreStep ==
    /\ probe.pc = "input"
    /\ LET score == calculate_risk_score(probe.risk_factors)
       IN  probe' = [pc |-> "done",
                     risk_factors |-> [probe.risk_factors EXCEPT !.risk_score = score],
                     status |-> status_of(score)]
    /\ UNCHANGED <<owner_id, groups, activities, alerts, last>>

SpecScore == InitScore /\ [][ScoreStep]_vars


(***************************************************************************)
(* Spec: the handlers.  The dispatcher hands one update at a time to its   *)
(* handler; the handler runs to its end (one step), and `last` then holds  *)
(* what it was given, the calls it made on the platform and on the         *)
(* database, and what it computed, until the handler's return clears it.   *)
(*                                                                         *)
(* A platform call ends "ok", with a "telegram_error" (TelegramError or    *)
(* BadRequest) or with another "error"; a database call ends ok or raises. *)
(* One handler run meets at most MaxFaults failing calls.                  *)
(***************************************************************************)
MaxFaults == 1

PrivateChat == 900

Chats == Groups \cup {PrivateChat}

\* chat.type
chat_type(chat) == IF chat \in Groups THEN "supergroup" ELSE "private"

Call(name, out) == [call |-> name, out |-> out]

OkOrError(ok) == IF ok THEN "ok" ELSE "error"

Fault(out) == IF out = "ok" THEN 0 ELSE 1

\* The columns a new row of table groups takes from the schema's defaults.
GroupDefaults == [status |-> "safe", last_scan |-> FALSE, is_active |-> TRUE]

(***************************************************************************)
(* Members of a chat, as chat.get_members yields them.                     *)
(***************************************************************************)
suspicious_patterns ==
    << <<"s", "p", "a", "m">>,
       <<"b", "o", "t">>,
       <<"f", "a", "k", "e">>,
       <<"c", "l", "o", "n", "e">>,
       <<"u", "s", "e", "r">> >>

\* A user id is <<high, low>>: high * 100000 + low, with low in 0..99999.
NewAccountId == <<70000, 0>>

IdGreater(a, b) == a[1] > b[1] \/ (a[1] = b[1] /\ a[2] > b[2])

is_suspicious_member(member) ==
    IF member.user.username_none \/ Len(member.user.username) = 0 THEN TRUE
    ELSE IF IdGreater(member.user.id, NewAccountId) THEN TRUE
    ELSE AnyIn(suspicious_patterns, LowerStr(member.user.username))

Alice ==
    [user |-> [id |-> <<0, 5001>>, username_none |-> FALSE,
               username |-> <<"a", "l", "i", "c", "e">>, is_bot |-> FALSE],
     joined_recently |-> FALSE]

\* joined within the last 24 hours
Carol ==
    [user |-> [id |-> <<0, 5002>>, username_none |-> FALSE,
               username |-> <<"c", "a", "r", "o", "l">>, is_bot |-> FALSE],
     joined_recently |-> TRUE]

\* no username
NoName ==
    [user |-> [id |-> <<0, 5003>>, username_none |-> TRUE,
               username |-> << >>, is_bot |-> FALSE],
     joined_recently |-> FALSE]

\* another bot
HelperBot ==
    [user |-> [id |-> <<0, 5004>>, username_none |-> FALSE,
               username |-> <<"H", "e", "l", "p", "e", "r", "B", "o", "t">>,
               is_bot |-> TRUE],
     joined_recently |-> FALSE]

\* a recently created account
Dave ==
    [user |-> [id |-> <<70000, 1>>, username_none |-> FALSE,
               username |-> <<"d", "a", "v", "e">>, is_bot |-> FALSE],
     joined_recently |-> TRUE]

\* The member lists the platform yields: none, a mixed group of 8, 8 members
\* without username, and MaxMembers bots or MaxMembers recent joiners.
Rosters ==
    { << >>,
      <<Alice, Dave, HelperBot, Alice, HelperBot, Carol, HelperBot, Alice>>,
      Rep(NoName, 8),
      Rep(HelperBot, MaxMembers),
      Rep(Carol, MaxMembers) }

MemberCounts == {Len(r) : r \in Rosters}

BotMembers ==
    { [status |-> "administrator", can_delete_messages |-> TRUE,
       can_restrict_members |-> TRUE],
      [status |-> "administrator", can_delete_messages |-> TRUE,
       can_restrict_members |-> FALSE],
      [status |-> "member", can_delete_messages |-> FALSE,
       can_restrict_members |-> FALSE] }

PlatformOutcomes == {"ok", "telegram_error", "error"}

(***************************************************************************)
(* send_alert_to_owner: sends unless owner_id is 0; never raises.          *)
(***************************************************************************)
\* Variant: a failed send is repeated until three attempts are made.
send_alert_to_owner_insistent(send_ok) ==
    IF owner_id = 0 THEN << >>
    ELSE IF send_ok THEN <<Call("send_owner", "ok")>>
    ELSE <<Call("send_owner", "error"), Call("send_owner", "error"),
           Call("send_owner", "error")>>

send_alert_to_owner(send_ok) ==
    IF owner_id = 0 THEN << >>
    ELSE <<Call("send_owner", OkOrError(send_ok))>>

(***************************************************************************)
(* get_recent_alerts_count: every stored alert is younger than 24 hours.   *)
(***************************************************************************)
get_recent_alerts_count(group_id, select_ok) ==
    IF select_ok
    THEN Len(SelectSeq(alerts, LAMBDA a : a.group_id = group_id))
    ELSE 0

(***************************************************************************)
(* check_admin_permissions: [raised, issues].                              *)
(***************************************************************************)
check_admin_permissions(bot_member) ==
    IF bot_member.out = "error" THEN [raised |-> TRUE, issues |-> 0]
    ELSE IF bot_member.out = "telegram_error" THEN [raised |-> FALSE, issues |-> 1]
    ELSE IF \/ bot_member.member.status # "administrator"
            \/ ~bot_member.member.can_delete_messages
            \/ ~bot_member.member.can_restrict_members
         THEN [raised |-> FALSE, issues |-> 1]
         ELSE [raised |-> FALSE, issues |-> 0]

(***************************************************************************)
(* perform_security_scan.  env holds what the platform and the database    *)
(* answer: member_count [out, value], members [out, roster] (the members   *)
(* yielded before the end or the error), bot_member [out, member],         *)
(* select_ok.                                                              *)
(***************************************************************************)
NewRiskFactors ==
    [suspicious_members |-> << >>, recent_joins |-> 0, bot_count |-> 0,
     admin_issues |-> 0, recent_alerts |-> 0, member_count |-> 0,
     risk_score |-> 0]

SuspiciousEntry(member) ==
    [id |-> member.user.id, username_none |-> member.user.username_none,
     username |-> member.user.username]

\* The loop over the members yielded: the three tallies.
scan_members(risk_factors, roster) ==
    LET suspicious == SelectSeq(roster, is_suspicious_member)
    IN  [risk_factors EXCEPT
            !.suspicious_members = [i \in 1..Len(suspicious) |->
                                        SuspiciousEntry(suspicious[i])],
            !.bot_count = Len(SelectSeq(roster, LAMBDA m : m.user.is_bot)),
            !.recent_joins = Len(SelectSeq(roster, LAMBDA m : m.joined_recently))]

\* After the loop: the count of the members seen, or the except branch.
after_members(risk_factors, members) ==
    IF members.out = "ok"
    THEN [risk_factors EXCEPT !.member_count = Len(members.roster)]
    ELSE [risk_factors EXCEPT !.admin_issues = @ + 1]

perform_security_scan(chat, env) ==
    IF env.member_count.out = "error" THEN NewRiskFactors
    ELSE
    LET rf1 == [NewRiskFactors EXCEPT !.member_count =
                    IF env.member_count.out = "ok"
                    THEN env.member_count.value ELSE 0]
        rf2 == scan_members(rf1, env.members.roster)
    IN  IF env.members.out = "error" THEN rf2
        ELSE
        LET rf3 == after_members(rf2, env.members)
            admin == check_admin_permissions(env.bot_member)
        IN  IF admin.raised THEN rf3
            ELSE
            LET rf4 == [rf3 EXCEPT !.admin_issues = admin.issues]
                rf5 == [rf4 EXCEPT !.recent_alerts =
                            get_recent_alerts_count(chat, env.select_ok)]
            IN  [rf5 EXCEPT !.risk_score = calculate_risk_score(rf5)]

\* The platform and database calls of perform_security_scan, in order.
scan_calls(env) ==
    <<Call("get_member_count", env.member_count.out)>>
    \o (IF env.member_count.out = "error" THEN << >>
        ELSE <<Call("get_members", env.members.out)>>
             \o (IF env.members.out = "error" THEN << >>
                 ELSE <<Call("get_member", env.bot_member.out)>>
                      \o (IF env.bot_member.out = "error" THEN << >>
                          ELSE <<Call("select_alerts", OkOrError(env.select_ok))>>)))

(***************************************************************************)
(* update_group_status: UPDATE groups ... WHERE group_id; a failed query   *)
(* is logged and changes nothing.                                          *)
(***************************************************************************)
\* Variant: a group once stored as 'risk' keeps that status.
update_group_status_sticky(chat, risk_factors, update_ok) ==
    IF update_ok /\ groups[chat].present
    THEN [groups EXCEPT ![chat] =
            [@ EXCEPT !.status = IF @ = "risk" THEN "risk"
                                 ELSE status_of(risk_factors.risk_score),
                      !.last_scan = TRUE,
                      !.member_count = risk_factors.member_count]]
    ELSE groups

update_group_status(chat, risk_factors, update_ok) ==
    IF update_ok /\ groups[chat].present
    THEN [groups EXCEPT ![chat] =
            [@ EXCEPT !.status = status_of(risk_factors.risk_score),
                      !.last_scan = TRUE,
                      !.member_count = risk_factors.member_count]]
    ELSE groups

\* Variant: the report warns from a score of 50 on only.
report_status_late(risk_factors) ==
    IF risk_factors.risk_score > 70 THEN "HIGH RISK"
    ELSE IF risk_factors.risk_score > 50 THEN "WARNING"
    ELSE "SAFE"

\* generate_scan_report: the status label of the report.
report_status(risk_factors) ==
    IF risk_factors.risk_score > 70 THEN "HIGH RISK"
    ELSE IF risk_factors.risk_score > 30 THEN "WARNING"
    ELSE "SAFE"


(***************************************************************************)
(* scan_group (/scan).  env adds to the answers of perform_security_scan:  *)
(* reply_ok (the "Scanning" reply), update_ok, edit_ok (the report),       *)
(* send_ok (the report to the owner), reply_error_ok (the error reply of   *)
(* the except branch).                                                     *)
(***************************************************************************)
MemberCountOutcomes ==
    {[out |-> "ok", value |-> n] : n \in MemberCounts}
    \cup {[out |-> o, value |-> 0] : o \in {"telegram_error", "error"}}

MembersOutcomes == {[out |-> o, roster |-> r] : o \in PlatformOutcomes, r \in Rosters}

BotMemberOutcomes ==
    {[out |-> "ok", member |-> b] : b \in BotMembers}
    \cup {[out |-> o, member |-> [status |-> "left", can_delete_messages |-> FALSE,
                                  can_restrict_members |-> FALSE]] :
            o \in {"telegram_error", "error"}}

\* The error reply of the except branch goes to the platform whose failure
\* led there; its failure is not counted as a fault of its own.
ScanFaults(env) ==
    Fault(OkOrError(env.reply_ok)) + Fault(env.member_count.out)
    + Fault(env.members.out) + Fault(env.bot_member.out)
    + Fault(OkOrError(env.select_ok)) + Fault(OkOrError(env.update_ok))
    + Fault(OkOrError(env.edit_ok)) + Fault(OkOrError(env.send_ok))

ScanEnvs ==
    {env \in [reply_ok : BOOLEAN, member_count : MemberCountOutcomes,
              members : MembersOutcomes, bot_member : BotMemberOutcomes,
              select_ok : BOOLEAN, update_ok : BOOLEAN, edit_ok : BOOLEAN,
              send_ok : BOOLEAN, reply_error_ok : BOOLEAN] :
        /\ ScanFaults(env) <= MaxFaults
        \* the count the platform reports is that of the members it lists
        /\ env.member_count.out = "ok" =>
                env.member_count.value = Len(env.members.roster)
        \* no error reply is made unless a reply or the edit failed
        /\ (env.reply_ok /\ env.edit_ok) => env.reply_error_ok}

\* In a private chat and after a failed first reply no scan is made.
NoScanEnvs ==
    {env \in ScanEnvs :
        /\ env.member_count.out = "ok"
        /\ env.members = [out |-> "ok", roster |-> << >>]
        /\ env.bot_member.out = "ok" /\ env.bot_member.member.status = "member"
        /\ env.select_ok /\ env.update_ok /\ env.edit_ok /\ env.send_ok}

\* The except branch of scan_group: the error reply; its failure leaves the handler.
scan_except(env) == <<Call("reply_error", OkOrError(env.reply_error_ok))>>

StatusBefore(chat) == IF groups[chat].present THEN groups[chat].status ELSE "none"

scan_group(chat, env) ==
    /\ last = NoUpdate /\ probe = ProbeOff
    /\ IF chat_type(chat) = "private"
       THEN /\ groups' = groups
            /\ last' = [op |-> "scan_group", chat |-> chat, scanned |-> FALSE,
                        calls |-> <<Call("reply_text", OkOrError(env.reply_ok))>>
                                  \o (IF env.reply_ok THEN << >> ELSE scan_except(env)),
                        raised |-> ~env.reply_ok /\ ~env.reply_error_ok]
       ELSE IF ~env.reply_ok
       THEN /\ groups' = groups
            /\ last' = [op |-> "scan_group", chat |-> chat, scanned |-> FALSE,
                        calls |-> <<Call("reply_text", "error")>> \o scan_except(env),
                        raised |-> ~env.reply_error_ok]
       ELSE LET risk_factors == perform_security_scan(chat, env)
            IN  /\ groups' = update_group_status(chat, risk_factors, env.update_ok)
                /\ last' =
                     [op |-> "scan_group", chat |-> chat, scanned |-> TRUE,
                      before |-> StatusBefore(chat),
                      risk_factors |-> risk_factors,
                      report |-> IF env.edit_ok THEN report_status(risk_factors)
                                 ELSE "none",
                      calls |-> <<Call("reply_text", "ok")>>
                                \o scan_calls(env)
                                \o <<Call("update_groups", OkOrError(env.update_ok)),
                                     Call("edit_text", OkOrError(env.edit_ok))>>
                                \o (IF env.edit_ok
                                    THEN send_alert_to_owner(env.send_ok)
                                    ELSE scan_except(env)),
                      raised |-> ~env.edit_ok /\ ~env.reply_error_ok]
    /\ UNCHANGED <<owner_id, activities, alerts, probe>>

(***************************************************************************)
(* monitor_messages.  env: has_message (update.message is set), user       *)
(* ("none": message.from_user is None, "bot": the bot itself, "user"),     *)
(* message, can_moderate (whether the bot may delete and restrict in the   *)
(* chat; the handler does not look it up), activity_ok, alert_ok, send_ok. *)
(***************************************************************************)
SenderId == 7

MonitorTexts ==
    { <<"h", "e", "l", "l", "o", ",", " ", "n", "i", "c", "e", " ",
        "t", "o", " ", "m", "e", "e", "t", " ", "y", "o", "u">>,
      <<"I", " ", "w", "i", "l", "l", " ", "K", "I", "L", "L", " ",
        "y", "o", "u">>,
      <<"B", "u", "y", " ", "N", "o", "w">>,
      <<"B", "O", "M", "B", " ", "h", "t", "t", "p", ":", "/", "/", "x">>,
      Rep("A", 14) \o <<"!">>,
      Rep("MATH_BOLD_A", 12),
      TokensText(<<"h", "e", "l", "l", "o">>, 9, 3) }

MonitorMessages ==
    {[text_none |-> TRUE, text |-> << >>]}
    \cup {[text_none |-> FALSE, text |-> t] : t \in MonitorTexts}

MonitorFaults(env) ==
    Fault(OkOrError(env.activity_ok)) + Fault(OkOrError(env.alert_ok))
    + Fault(OkOrError(env.send_ok))

MonitorEnvs ==
    {env \in [has_message : BOOLEAN, user : {"none", "bot", "user"},
              message : MonitorMessages, can_moderate : BOOLEAN,
              activity_ok : BOOLEAN, alert_ok : BOOLEAN, send_ok : BOOLEAN] :
        MonitorFaults(env) <= MaxFaults}

\* The updates whose message is not checked: no message, a private chat,
\* no sender, or the bot as the sender.
UncheckedEnvs ==
    {env \in MonitorEnvs :
        /\ env.message.text_none /\ ~env.can_moderate
        /\ env.activity_ok /\ env.alert_ok /\ env.send_ok}

\* log_suspicious_activity: the two rows.
activity_row(chat, patterns) ==
    [group_id |-> chat, user_id |-> SenderId,
     activity_type |-> "suspicious_message",
     risk_level |-> IF \E i \in 1..Len(patterns) : patterns[i] = "violent_content"
                    THEN "high_risk" ELSE "suspicious"]

\* Variant: an alert for a spam link is 'high' as well.
alert_row_spam_high(chat, patterns) ==
    LET violent == \E i \in 1..Len(patterns) : patterns[i] = "violent_content"
        high == \E i \in 1..Len(patterns) :
                    patterns[i] \in {"violent_content", "spam_links"}
    IN  [group_id |-> chat,
         alert_type |-> IF violent THEN "violent_content" ELSE "suspicious_message",
         risk_level |-> IF high THEN "high" ELSE "medium"]

alert_row(chat, patterns) ==
    LET violent == \E i \in 1..Len(patterns) : patterns[i] = "violent_content"
    IN  [group_id |-> chat,
         alert_type |-> IF violent THEN "violent_content" ELSE "suspicious_message",
         risk_level |-> IF violent THEN "high" ELSE "medium"]

\* Variant: the alert row is inserted whether or not the activity row was.
log_suspicious_activity_apart(chat, patterns, env) ==
    [activities |-> IF env.activity_ok
                    THEN Append(activities, activity_row(chat, patterns))
                    ELSE activities,
     alerts |-> IF env.alert_ok
                THEN Append(alerts, alert_row(chat, patterns))
                ELSE alerts,
     calls |-> <<Call("insert_activity", OkOrError(env.activity_ok)),
                 Call("insert_alert", OkOrError(env.alert_ok))>>]

\* log_suspicious_activity: the first failing INSERT ends it; nothing is raised.
log_suspicious_activity(chat, patterns, env) ==
    [activities |-> IF env.activity_ok
                    THEN Append(activities, activity_row(chat, patterns))
                    ELSE activities,
     alerts |-> IF env.activity_ok /\ env.alert_ok
                THEN Append(alerts, alert_row(chat, patterns))
                ELSE alerts,
     calls |-> <<Call("insert_activity", OkOrError(env.activity_ok))>>
               \o (IF env.activity_ok
                   THEN <<Call("insert_alert", OkOrError(env.alert_ok))>>
                   ELSE << >>)]

\* Variant: the message is logged and reported whatever was detected.
is_flagged_always(patterns) == TRUE

\* if suspicious_patterns:
is_flagged(patterns) == patterns # << >>

\* What monitor_messages does with the patterns of a checked message.
monitor_effects(chat, patterns, env) ==
    IF is_flagged(patterns)
    THEN LET logged == log_suspicious_activity(chat, patterns, env)
         IN  [logged EXCEPT !.calls = @ \o send_alert_to_owner(env.send_ok)]
    ELSE [activities |-> activities, alerts |-> alerts, calls |-> << >>]

Unchecked(chat) ==
    [op |-> "monitor_messages", chat |-> chat, checked |-> FALSE,
     calls |-> << >>, raised |-> FALSE]

monitor_messages(chat, env) ==
    /\ last = NoUpdate /\ probe = ProbeOff
    /\ IF ~env.has_message \/ chat_type(chat) = "private"
       THEN /\ last' = Unchecked(chat)
            /\ UNCHANGED <<activities, alerts>>
       ELSE IF env.user = "none"
       THEN \* user.id raises AttributeError, which the handler logs
            /\ last' = Unchecked(chat)
            /\ UNCHANGED <<activities, alerts>>
       ELSE IF env.user = "bot"
       THEN /\ last' = Unchecked(chat)
            /\ UNCHANGED <<activities, alerts>>
       ELSE LET patterns == detect_suspicious_content(env.message)
                effects == monitor_effects(chat, patterns, env)
            IN  /\ Len(effects.activities) <= MaxRows
                /\ Len(effects.alerts) <= MaxRows
                /\ activities' = effects.activities
                /\ alerts' = effects.alerts
                /\ last' = [op |-> "monitor_messages", chat |-> chat,
                            checked |-> TRUE, message |-> env.message,
                            patterns |-> patterns,
                            can_moderate |-> env.can_moderate,
                            calls |-> effects.calls, raised |-> FALSE]
    /\ UNCHANGED <<owner_id, groups, probe>>

(***************************************************************************)
(* track_new_chat (my_chat_member updates of a group chat).  env:          *)
(* old_status, new_status, member_count (add_group_to_database),           *)
(* upsert_ok, member_count_again (send_group_added_alert), send_ok (the    *)
(* alert to the owner), welcome_ok, error_alert_ok (send_error_alert).     *)
(***************************************************************************)
MemberStatuses == {"left", "kicked", "member", "administrator"}

\* chat.title at the time of the update
Titles == {"Rocky", "Rocky II"}

TrackFaults(env) ==
    Fault(env.member_count.out) + Fault(OkOrError(env.upsert_ok))
    + Fault(env.member_count_again) + Fault(OkOrError(env.send_ok))
    + Fault(OkOrError(env.welcome_ok)) + Fault(OkOrError(env.error_alert_ok))

TrackEnvs ==
    {env \in [old_status : MemberStatuses, new_status : MemberStatuses,
              title : Titles,
              member_count : MemberCountOutcomes, upsert_ok : BOOLEAN,
              member_count_again : PlatformOutcomes, send_ok : BOOLEAN,
              welcome_ok : BOOLEAN, error_alert_ok : BOOLEAN] :
        /\ TrackFaults(env) <= MaxFaults
        \* an update that does not add the bot makes no call
        /\ ~(env.old_status \in {"left", "kicked"}
              /\ env.new_status \in {"member", "administrator"}) =>
                /\ env.title = "Rocky"
                /\ env.member_count = [out |-> "ok", value |-> 0]
                /\ env.member_count_again = "ok"
                /\ env.upsert_ok /\ env.send_ok /\ env.welcome_ok
                /\ env.error_alert_ok}

\* Variant: the row of a group already stored is replaced by a new one.
add_group_to_database_replacing(chat, title, member_count) ==
    [groups EXCEPT ![chat] =
        [present |-> TRUE, group_name |-> title, member_count |-> member_count,
         status |-> GroupDefaults.status, last_scan |-> GroupDefaults.last_scan,
         is_active |-> GroupDefaults.is_active]]

\* INSERT INTO groups ... ON CONFLICT (group_id) DO UPDATE SET ...
add_group_to_database(chat, title, member_count) ==
    [groups EXCEPT ![chat] =
        IF @.present
        THEN [@ EXCEPT !.group_name = title, !.member_count = member_count,
                       !.is_active = TRUE]
        ELSE [present |-> TRUE, group_name |-> title,
              member_count |-> member_count,
              status |-> GroupDefaults.status,
              last_scan |-> GroupDefaults.last_scan,
              is_active |-> GroupDefaults.is_active]]

\* send_group_added_alert: any exception is logged.
group_added_calls(env) ==
    <<Call("get_member_count", env.member_count_again)>>
    \o (IF env.member_count_again = "error" THEN << >>
        ELSE send_alert_to_owner(env.send_ok))

track_new_chat(chat, env) ==
    /\ last = NoUpdate /\ probe = ProbeOff
    /\ chat \in Groups
    /\ LET added == /\ env.old_status \in {"left", "kicked"}
                    /\ env.new_status \in {"member", "administrator"}
           stored == added /\ env.member_count.out # "error" /\ env.upsert_ok
           count == IF env.member_count.out = "ok" THEN env.member_count.value ELSE 0
           error_alert == send_alert_to_owner(env.error_alert_ok)
       IN  /\ groups' = IF stored THEN add_group_to_database(chat, env.title, count)
                        ELSE groups
           /\ last' =
                [op |-> "track_new_chat", chat |-> chat,
                 added |-> added, new_status |-> env.new_status,
                 calls |->
                    IF ~added THEN << >>
                    ELSE <<Call("get_member_count", env.member_count.out)>>
                         \o (IF env.member_count.out = "error" THEN error_alert
                             ELSE <<Call("upsert_group", OkOrError(env.upsert_ok))>>
                                  \o (IF ~env.upsert_ok THEN error_alert
                                      ELSE group_added_calls(env)
                                           \o <<Call("send_welcome",
                                                     OkOrError(env.welcome_ok))>>
                                           \o (IF env.welcome_ok THEN << >>
                                               ELSE error_alert))),
                 raised |-> FALSE]
    /\ UNCHANGED <<owner_id, activities, alerts, probe>>

(***************************************************************************)
(* get_status (/status).  env: select_ok, reply_ok, reply_error_ok (the    *)
(* error reply of the except branch).                                      *)
(***************************************************************************)
StatusEnvs ==
    {env \in [select_ok : BOOLEAN, reply_ok : BOOLEAN, reply_error_ok : BOOLEAN] :
        /\ Fault(OkOrError(env.select_ok)) + Fault(OkOrError(env.reply_ok)) <= MaxFaults
        /\ (env.select_ok /\ env.reply_ok) => env.reply_error_ok}

\* The reply of get_status to a group chat whose SELECT succeeded.
status_msg(chat) ==
    IF ~groups[chat].present
    THEN [text |-> "Group not monitored. Use /scan to start monitoring."]
    ELSE [text |-> "Group Status", status |-> groups[chat].status,
          members |-> groups[chat].member_count,
          last_scan |-> groups[chat].last_scan]

get_status(chat, env) ==
    /\ last = NoUpdate /\ probe = ProbeOff
    /\ LET selected == chat_type(chat) # "private"
           failed == (selected /\ ~env.select_ok) \/ ~env.reply_ok
           reply == IF ~selected
                    THEN [text |-> "This command can only be used in groups/channels."]
                    ELSE status_msg(chat)
       IN  last' = [op |-> "get_status", chat |-> chat,
                    reply |-> IF failed
                              THEN IF env.reply_error_ok
                                   THEN [text |-> "Error retrieving status."]
                                   ELSE [text |-> "none"]
                              ELSE reply,
                    calls |-> (IF selected
                               THEN <<Call("select_group", OkOrError(env.select_ok))>>
                               ELSE << >>)
                              \o (IF selected /\ ~env.select_ok THEN << >>
                                  ELSE <<Call("reply_text", OkOrError(env.reply_ok))>>)
                              \o (IF failed
                                  THEN <<Call("reply_error", OkOrError(env.reply_error_ok))>>
                                  ELSE << >>),
                    raised |-> failed /\ ~env.reply_error_ok]
    /\ UNCHANGED <<owner_id, groups, activities, alerts, probe>>

(***************************************************************************)
(* list_groups (/groups) and show_alerts (/alerts).  env: caller           *)
(* (update.effective_user.id), select_ok, reply_ok, reply_error_ok (the    *)
(* error reply of the except branch).                                      *)
(***************************************************************************)
Callers == {SenderId} \cup (OwnerIds \ {0})

\* Variant: the comparison with owner_id is left out.
is_owner_unchecked(user_id) == TRUE

\* update.effective_user.id != self.owner_id
is_owner(user_id) == user_id = owner_id

ListEnvs ==
    {env \in [caller : Callers, select_ok : BOOLEAN, reply_ok : BOOLEAN,
              reply_error_ok : BOOLEAN] :
        /\ Fault(OkOrError(env.select_ok)) + Fault(OkOrError(env.reply_ok)) <= MaxFaults
        /\ (env.select_ok /\ env.reply_ok) => env.reply_error_ok}

\* SELECT ... FROM groups WHERE is_active = TRUE
active_groups == {g \in Groups : groups[g].present /\ groups[g].is_active}

\* SELECT a.*, g.group_name FROM alerts a JOIN groups g ON ...
joined_alerts == SelectSeq(alerts, LAMBDA a : groups[a.group_id].present)

\* The owner check, the query and the replies that the two commands share.
owner_command(op, env, empty, texts, answer) ==
    /\ last = NoUpdate /\ probe = ProbeOff
    /\ LET from_owner == is_owner(env.caller)
           failed == (from_owner /\ ~env.select_ok) \/ ~env.reply_ok
           reply == IF ~from_owner
                    THEN [text |-> "This command is only available for the bot owner."]
                    ELSE IF empty THEN [text |-> texts.empty]
                    ELSE answer
       IN  last' = [op |-> op, chat |-> PrivateChat, caller |-> env.caller,
                    reply |-> IF failed
                              THEN IF env.reply_error_ok
                                   THEN [text |-> texts.error]
                                   ELSE [text |-> "none"]
                              ELSE reply,
                    calls |-> (IF from_owner
                               THEN <<Call("select", OkOrError(env.select_ok))>>
                               ELSE << >>)
                              \o (IF from_owner /\ ~env.select_ok THEN << >>
                                  ELSE <<Call("reply_text", OkOrError(env.reply_ok))>>)
                              \o (IF failed
                                  THEN <<Call("reply_error", OkOrError(env.reply_error_ok))>>
                                  ELSE << >>),
                    raised |-> failed /\ ~env.reply_error_ok]
    /\ UNCHANGED <<owner_id, groups, activities, alerts, probe>>

list_groups(env) ==
    owner_command("list_groups", env, active_groups = {},
                  [empty |-> "No groups are being monitored yet.",
                   error |-> "Error retrieving group list."],
                  [text |-> "Monitored Groups",
                   listed |-> [g \in active_groups |-> groups[g].status]])

show_alerts(env) ==
    owner_command("show_alerts", env, joined_alerts = << >>,
                  [empty |-> "No recent alerts.",
                   error |-> "Error retrieving alerts."],
                  [text |-> "Recent Alerts", listed |-> joined_alerts])

(***************************************************************************)
(* The handler returns, or its exception goes to error_handler, which      *)
(* raises nothing; the dispatcher takes the next update.                   *)
(***************************************************************************)
\* Variant: an exception that leaves a handler stops the dispatcher.
ReturnUnlessRaised ==
    /\ last # NoUpdate /\ ~last.raised
    /\ last' = NoUpdate
    /\ UNCHANGED <<owner_id, groups, activities, alerts, probe>>

Return ==
    /\ last # NoUpdate
    /\ last' = NoUpdate
    /\ UNCHANGED <<owner_id, groups, activities, alerts, probe>>

Init ==
    /\ owner_id \in OwnerIds
    /\ TablesEmpty
    /\ probe = ProbeOff

ScanGroup ==
    \/ \E chat \in Groups, env \in {e \in ScanEnvs : e.reply_ok} : scan_group(chat, env)
    \/ \E chat \in Chats, env \in NoScanEnvs : scan_group(chat, env)

\* monitor_messages called with an update, whatever filter registered it.
MonitorMessage ==
    \/ \E chat \in Groups, env \in {e \in MonitorEnvs : e.has_message /\ e.user = "user"} :
            monitor_messages(chat, env)
    \/ \E chat \in Chats, env \in UncheckedEnvs : monitor_messages(chat, env)

\* The bot added to a chat whose title is the one it had before.
TrackNewChat ==
    \E chat \in Groups, env \in {e \in TrackEnvs : e.title = "Rocky"} :
        track_new_chat(chat, env)

GetStatus == \E chat \in Chats, env \in StatusEnvs : get_status(chat, env)

ListGroups == \E env \in ListEnvs : list_groups(env)

ShowAlerts == \E env \in ListEnvs : show_alerts(env)

Next ==
    \/ ScanGroup \/ MonitorMessage \/ TrackNewChat \/ GetStatus \/ ListGroups
    \/ ShowAlerts \/ Return

Spec == Init /\ [][Next]_vars

(***************************************************************************)
(* SpecReadd: the bot added to a chat, scans of it, and the bot added      *)
(* again, also after the chat was given another title.                     *)
(***************************************************************************)
RenamedChat ==
    \E chat \in Groups, env \in {e \in TrackEnvs : e.title # "Rocky"} :
        track_new_chat(chat, env)

NextReadd == ScanGroup \/ TrackNewChat \/ RenamedChat \/ Return

SpecReadd == Init /\ [][NextReadd]_vars

(***************************************************************************)
(* SpecRisk: the risk score both ways, computed by a scan of Spec and      *)
(* computed from the generated risk factors of SpecScore.                  *)
(***************************************************************************)
InitRisk == Init \/ InitScore

NextRisk == Next \/ ScoreStep

SpecRisk == InitRisk /\ [][NextRisk]_vars


(***************************************************************************)
(* SpecStart: the process from its start.  environ holds the environment   *)
(* variables, each [set, value]: whether it is set, and its characters.    *)
(***************************************************************************)
Unset == [set |-> FALSE, value |-> << >>]

SetTo(value) == [set |-> TRUE, value |-> value]

EnvValues == {Unset, SetTo(<< >>), SetTo(<<"x">>)}

OwnerIdValues ==
    {Unset, SetTo(<< >>), SetTo(<<"a", "b", "c">>), SetTo(<<"1", "2", "x">>),
     SetTo(<<"0">>), SetTo(<<"1", "0", "0">>)}

Environs == [BOT_TOKEN : EnvValues, DATABASE_URL : EnvValues, OWNER_ID : OwnerIdValues]

\* os.getenv(var_name) is falsy: the variable is unset or empty.
not_value(var) == ~var.set \/ var.value = << >>

DigitOf(c) == CHOOSE d \in 0..9 : DigitChar[d + 1] = c

IsDigit(c) == \E d \in 0..9 : DigitChar[d + 1] = c

RECURSIVE int(_)
\* int(value) of a string of decimal digits
int(value) ==
    IF Len(value) = 0 THEN 0
    ELSE 10 * int(SubSeq(value, 1, Len(value) - 1)) + DigitOf(value[Len(value)])

\* int(value) raises ValueError
int_raises(value) == Len(value) = 0 \/ \E i \in 1..Len(value) : ~IsDigit(value[i])

\* get_required_env raises ValueError
get_required_env_raises(var) == not_value(var)

\* Variant: OWNER_ID is optional, as its lookup by get_optional_env suggests,
\* and a missing or malformed value gives owner id 0.
load_config_owner_optional(environ) ==
    IF \/ get_required_env_raises(environ.BOT_TOKEN)
       \/ get_required_env_raises(environ.DATABASE_URL)
    THEN [raised |-> TRUE, OWNER_ID |-> 0]
    ELSE IF not_value(environ.OWNER_ID) \/ int_raises(environ.OWNER_ID.value)
    THEN [raised |-> FALSE, OWNER_ID |-> 0]
    ELSE [raised |-> FALSE, OWNER_ID |-> int(environ.OWNER_ID.value)]

\* Config.load_config: [raised, OWNER_ID]
load_config(environ) ==
    IF \/ get_required_env_raises(environ.BOT_TOKEN)
       \/ get_required_env_raises(environ.DATABASE_URL)
    THEN [raised |-> TRUE, OWNER_ID |-> 0]
    ELSE IF not_value(environ.OWNER_ID)
    THEN [raised |-> TRUE, OWNER_ID |-> 0]
    ELSE IF int_raises(environ.OWNER_ID.value)
    THEN [raised |-> TRUE, OWNER_ID |-> 0]
    ELSE [raised |-> FALSE, OWNER_ID |-> int(environ.OWNER_ID.value)]

InitStart ==
    /\ owner_id = 0
    /\ groups = [g \in Groups |-> NoRow]
    /\ activities = << >>
    /\ alerts = << >>
    /\ last = NoUpdate
    /\ probe \in {[pc |-> "start", environ |-> e] : e \in Environs}

\* bot = RenderCompatibleBot(): a configuration error ends the process.
RenderCompatibleBot ==
    /\ probe.pc = "start"
    /\ LET config == load_config(probe.environ)
       IN  IF config.raised
           THEN /\ probe' = [pc |-> "exited", environ |-> probe.environ]
                /\ owner_id' = owner_id
           ELSE /\ probe' = [pc |-> "constructed", environ |-> probe.environ]
                /\ owner_id' = config.OWNER_ID
    /\ UNCHANGED <<groups, activities, alerts, last>>

\* bot.run(): after the health check, the database initialisation and the
\* registration of the handlers, updates are polled; a failure before that
\* is logged and run() is called again.
run ==
    /\ probe.pc = "constructed"
    /\ \E started \in BOOLEAN :
          probe' = IF started THEN ProbeOff ELSE probe
    /\ UNCHANGED <<owner_id, groups, activities, alerts, last>>

NextStart == RenderCompatibleBot \/ run \/ Next

SpecStart == InitStart /\ [][NextStart]_vars

(***************************************************************************)
(* SpecUpdates: /scan updates taken from the update queue of the           *)
(* Application that run builds, scan_group followed from one await to the  *)
(* next.  The database holds the row track_new_chat stored.                *)
(***************************************************************************)
MaxUpdates == 2

Updates == 1..MaxUpdates

QueuedTask ==
    [pc |-> "queued", chat |-> 0, seq |-> 0, risk_factors |-> NewRiskFactors,
     update_ok |-> TRUE]

DoneTask == [QueuedTask EXCEPT !.pc = "done"]

NothingStored == [seq |-> 0, status |-> "none", member_count |-> 0]

\* The handlers that have started and not returned.
Running(tasks) == {u \in Updates : tasks[u].pc \in {"scanning", "collected"}}

\* Variant: the Application built with concurrent_updates(True).
fetcher_spawns(tasks) == TRUE

\* The builder sets no concurrent_updates and the handlers are added
\* blocking: the fetcher awaits the handler of one update before it takes
\* the next update from the queue.
fetcher_awaits(tasks) == Running(tasks) = {}

InitUpdates ==
    /\ owner_id \in OwnerIds
    /\ groups = [g \in Groups |->
                    [present |-> TRUE, group_name |-> "Rocky", member_count |-> 0,
                     status |-> GroupDefaults.status,
                     last_scan |-> GroupDefaults.last_scan,
                     is_active |-> GroupDefaults.is_active]]
    /\ activities = << >>
    /\ alerts = << >>
    /\ last = NoUpdate
    /\ probe = [pc |-> "polling", tasks |-> [u \in Updates |-> QueuedTask],
                collected |-> 0, writes |-> 0, before |-> "none",
                stored |-> [g \in Groups |-> NothingStored]]

\* The fetcher hands the next update to scan_group, which runs to its first
\* await: the "Scanning" reply; a failed reply ends it in the except branch.
process_update(u, chat, reply_ok) ==
    /\ probe.pc = "polling"
    /\ probe.tasks[u].pc = "queued"
    /\ \A v \in Updates : v < u => probe.tasks[v].pc # "queued"
    /\ fetcher_awaits(probe.tasks)
    /\ probe' = [probe EXCEPT !.tasks[u] =
                    IF reply_ok THEN [QueuedTask EXCEPT !.pc = "scanning",
                                                        !.chat = chat]
                    ELSE DoneTask]
    /\ UNCHANGED <<owner_id, groups, activities, alerts, last>>

\* risk_factors = await self.perform_security_scan(chat, context)
scan_collect(u, env) ==
    /\ probe.pc = "polling"
    /\ probe.tasks[u].pc = "scanning"
    /\ probe' = [probe EXCEPT
                    !.collected = @ + 1,
                    !.tasks[u] = [@ EXCEPT
                        !.pc = "collected",
                        !.seq = probe.collected + 1,
                        !.risk_factors =
                            perform_security_scan(probe.tasks[u].chat, env),
                        !.update_ok = env.update_ok]]
    /\ UNCHANGED <<owner_id, groups, activities, alerts, last>>

\* await self.update_group_status(chat, risk_factors), then the report and
\* the owner's copy, which store nothing.
scan_write(u) ==
    /\ probe.pc = "polling"
    /\ probe.tasks[u].pc = "collected"
    /\ LET task == probe.tasks[u]
           chat == task.chat
           written == task.update_ok /\ groups[chat].present
       IN  /\ groups' = update_group_status(chat, task.risk_factors, task.update_ok)
           /\ probe' = [probe EXCEPT
                          !.tasks[u] = DoneTask,
                          !.before = groups[chat].status,
                          !.writes = IF written THEN @ + 1 ELSE @,
                          !.stored[chat] =
                              IF written /\ task.seq > @.seq
                              THEN [seq |-> task.seq,
                                    status |-> status_of(task.risk_factors.risk_score),
                                    member_count |-> task.risk_factors.member_count]
                              ELSE @]
    /\ UNCHANGED <<owner_id, activities, alerts, last>>

ProcessUpdate ==
    \E u \in Updates, chat \in Groups, reply_ok \in BOOLEAN :
        process_update(u, chat, reply_ok)

ScanCollect ==
    \E u \in Updates, env \in {e \in ScanEnvs : e.reply_ok} : scan_collect(u, env)

ScanWrite == \E u \in Updates : scan_write(u)

NextUpdates == ProcessUpdate \/ ScanCollect \/ ScanWrite

SpecUpdates == InitUpdates /\ [][NextUpdates]_vars

(***************************************************************************)
(* SpecOutbox: message updates handled by monitor_messages one after the   *)
(* other, with the alerts that reached the owner kept in the order sent.   *)
(***************************************************************************)
MaxDeliveries == 2

Notification(chat, message, patterns) ==
    [group_id |-> chat, user_id |-> SenderId, text |-> message.text,
     patterns |-> patterns]

InitOutbox ==
    /\ owner_id \in OwnerIds
    /\ TablesEmpty
    /\ last = NoUpdate
    /\ probe = [pc |-> "outbox", handled |-> 0, outbox |-> << >>]

\* monitor_messages for one update, returned from.
deliver(chat, env) ==
    /\ probe.pc = "outbox"
    /\ probe.handled < MaxDeliveries
    /\ IF \/ ~env.has_message
          \/ chat_type(chat) = "private"
          \/ env.user # "user"
       THEN /\ probe' = [probe EXCEPT !.handled = @ + 1]
            /\ UNCHANGED <<activities, alerts>>
       ELSE LET patterns == detect_suspicious_content(env.message)
                effects == monitor_effects(chat, patterns, env)
            IN  /\ activities' = effects.activities
                /\ alerts' = effects.alerts
                /\ probe' = [probe EXCEPT
                                !.handled = @ + 1,
                                !.outbox =
                                    IF \E i \in 1..Len(effects.calls) :
                                            effects.calls[i] = Call("send_owner", "ok")
                                    THEN Append(@, Notification(chat, env.message,
                                                                patterns))
                                    ELSE @]
    /\ UNCHANGED <<owner_id, groups, last>>

Deliver ==
    \/ \E chat \in Groups, env \in {e \in MonitorEnvs : e.has_message /\ e.user = "user"} :
            deliver(chat, env)
    \/ \E chat \in Chats, env \in UncheckedEnvs : deliver(chat, env)

NextOutbox == Deliver

SpecOutbox == InitOutbox /\ [][NextOutbox]_vars

(***************************************************************************)
(* SpecRoute: setup_handlers.  A message update is offered to the handlers *)
(* in the order they were added; the first whose filter accepts it takes   *)
(* it.                                                                     *)
(***************************************************************************)
ChatTypes == {"private", "group", "supergroup", "channel"}

CommandTexts ==
    { <<"/", "s", "c", "a", "n">>,
      <<"/", "s", "t", "a", "t", "u", "s">>,
      <<"/", "h", "e", "l", "p">> }

RouteUpdates ==
    [chat_type : ChatTypes, edited : BOOLEAN,
     message : MonitorMessages
               \cup {[text_none |-> FALSE, text |-> t] : t \in CommandTexts}]

\* filters.TEXT
filters_TEXT(message) == ~message.text_none /\ message.text # << >>

\* filters.COMMAND: the text starts with a bot command
filters_COMMAND(message) == filters_TEXT(message) /\ message.text[1] = "/"

\* filters.ChatType.GROUPS
ChatType_GROUPS(chat_type_) == chat_type_ \in {"group", "supergroup"}

\* filters.ChatType.CHANNELS
ChatType_CHANNELS(chat_type_) == chat_type_ = "channel"

\* CommandHandler(command, ...): a new message that starts with /command
CommandHandler(command, update) ==
    /\ ~update.edited
    /\ filters_COMMAND(update.message)
    /\ update.message.text = <<"/">> \o command

\* filters.TEXT & ~filters.COMMAND & filters.ChatType.GROUPS & filters.ChatType.CHANNELS
MessageHandler(update) ==
    /\ filters_TEXT(update.message)
    /\ ~filters_COMMAND(update.message)
    /\ ChatType_GROUPS(update.chat_type)
    /\ ChatType_CHANNELS(update.chat_type)

\* The callback of the first handler that accepts the update.
setup_handlers(update) ==
    IF CommandHandler(<<"s", "t", "a", "r", "t">>, update) THEN "start"
    ELSE IF CommandHandler(<<"s", "c", "a", "n">>, update) THEN "scan_group"
    ELSE IF CommandHandler(<<"s", "t", "a", "t", "u", "s">>, update) THEN "get_status"
    ELSE IF CommandHandler(<<"g", "r", "o", "u", "p", "s">>, update) THEN "list_groups"
    ELSE IF CommandHandler(<<"a", "l", "e", "r", "t", "s">>, update) THEN "show_alerts"
    ELSE IF MessageHandler(update) THEN "monitor_messages"
    ELSE "none"

InitRoute ==
    /\ owner_id \in OwnerIds
    /\ TablesEmpty
    /\ last = NoUpdate
    /\ \E update \in RouteUpdates :
            probe = [pc |-> "update", update |-> update, callback |-> "none"]

RouteStep ==
    /\ probe.pc = "update"
    /\ probe' = [probe EXCEPT !.pc = "routed",
                              !.callback = setup_handlers(probe.update)]
    /\ UNCHANGED <<owner_id, groups, activities, alerts, last>>

SpecRoute == InitRoute /\ [][RouteStep]_vars

(***************************************************************************)
(* SpecConnect: DatabaseManager.execute_query and get_connection, one      *)
(* connection attempt per step.  The log keeps, for every query made, the  *)
(* outcomes of its connection attempts and how the call ended.             *)
(***************************************************************************)
MaxQueries == 2

max_retries == 3

\* psycopg2.connect and the test query: success, psycopg2.OperationalError,
\* or any other exception.
ConnectOutcomes == {"ok", "operational_error", "error"}

\* cursor.execute and commit: success, psycopg2.DatabaseError, or
\* psycopg2.InterfaceError.
QueryOutcomes == {"ok", "database_error", "interface_error"}

\* Variant: the last attempt is retried as well.
may_retry_again(attempt) == attempt < max_retries

\* if attempt < max_retries - 1:
may_retry(attempt) == attempt < max_retries - 1

InitConnect ==
    /\ owner_id \in OwnerIds
    /\ TablesEmpty
    /\ last = NoUpdate
    /\ probe = [pc |-> "idle", attempt |-> 0, retry_delay |-> 0,
                outcomes |-> << >>, slept |-> 0, log |-> << >>]

\* execute_query returns or raises: the call is logged.
Ended(tried, result) ==
    [tried EXCEPT !.pc = "idle", !.attempt = 0, !.retry_delay = 0,
                  !.outcomes = << >>,
                  !.log = Append(@, [outcomes |-> tried.outcomes, result |-> result])]

\* execute_query calls get_connection: max_retries = 3, retry_delay = 2.
execute_query ==
    /\ probe.pc = "idle"
    /\ Len(probe.log) < MaxQueries
    /\ probe' = [probe EXCEPT !.pc = "connecting", !.attempt = 0,
                              !.retry_delay = 2]
    /\ UNCHANGED <<owner_id, groups, activities, alerts, last>>

\* One pass of the loop `for attempt in range(max_retries)`.
get_connection(outcome) ==
    /\ probe.pc = "connecting"
    /\ probe.attempt < max_retries
    /\ LET tried == [probe EXCEPT !.outcomes = Append(@, outcome)]
       IN  probe' =
             IF outcome = "ok"
             THEN [tried EXCEPT !.pc = "connected"]
             ELSE IF outcome = "operational_error" /\ may_retry(probe.attempt)
             THEN [tried EXCEPT !.attempt = @ + 1,
                                !.slept = @ + probe.retry_delay,
                                !.retry_delay = @ * 2]
             ELSE \* raised: execute_query logs and raises it again
                  Ended(tried, "not_connected")
    /\ UNCHANGED <<owner_id, groups, activities, alerts, last>>

\* The query on the connection returned; the connection is closed.
run_query(outcome) ==
    /\ probe.pc = "connected"
    /\ probe' = Ended(probe, outcome)
    /\ UNCHANGED <<owner_id, groups, activities, alerts, last>>

GetConnection == \E outcome \in ConnectOutcomes : get_connection(outcome)

RunQuery == \E outcome \in QueryOutcomes : run_query(outcome)

NextConnect == execute_query \/ GetConnection \/ RunQuery

SpecConnect == InitConnect /\ [][NextConnect]_vars

(***************************************************************************)
(* SpecSupervise: the loop of __main__ around asyncio.run(bot.run()).      *)
(* The bot is constructed once; whenever run ends the loop decides.  The   *)
(* sleep before a restart ends, so the restart is taken if it stays due.   *)
(***************************************************************************)
\* How asyncio.run(bot.run()) ends: run returns, an Exception leaves it, or
\* the user interrupts it.
RunOutcomes == {"returned", "exception", "keyboard_interrupt"}

\* Variant: `except Exception` leaves the loop as `except KeyboardInterrupt` does.
loops_again_after_return_only(pc) == pc = "returned"

\* while True: the loop goes on after a return and after `except Exception`.
loops_again(pc) == pc \in {"returned", "crashed"}

\* asyncio.run(bot.run()) ends.
asyncio_run(outcome) ==
    /\ probe.pc = "constructed"
    /\ probe' = [probe EXCEPT !.pc =
                    IF outcome = "exception" THEN "crashed"
                    ELSE IF outcome = "keyboard_interrupt" THEN "stopped"
                    ELSE "returned"]
    /\ UNCHANGED <<owner_id, groups, activities, alerts, last>>

\* time.sleep(10) after a crash is over, or run returned: run is called again.
restart ==
    /\ loops_again(probe.pc)
    /\ probe' = [probe EXCEPT !.pc = "constructed"]
    /\ UNCHANGED <<owner_id, groups, activities, alerts, last>>

\* KeyboardInterrupt during time.sleep(10): raised inside the handler, it
\* passes `except Exception` of the outer try and ends the process.
interrupt_sleep ==
    /\ probe.pc = "crashed"
    /\ probe' = [probe EXCEPT !.pc = "stopped"]
    /\ UNCHANGED <<owner_id, groups, activities, alerts, last>>

AsyncioRun == \E outcome \in RunOutcomes : asyncio_run(outcome)

NextSupervise == RenderCompatibleBot \/ AsyncioRun \/ restart \/ interrupt_sleep

SpecSupervise == InitStart /\ [][NextSupervise]_vars /\ WF_vars(restart)

(***************************************************************************)
(* Properties.                                                             *)
(***************************************************************************)
Has(seq, x) == \E i \in 1..Len(seq) : seq[i] = x

\* keyword occurs in text when letter case is ignored
OccursIn(keyword, text) ==
    \E i \in 0..(Len(text) - Len(keyword)) :
        \A j \in 1..Len(keyword) : Lower(text[i + j]) = keyword[j]

HelloText ==
    <<"h", "e", "l", "l", "o", ",", " ", "n", "i", "c", "e", " ",
      "t", "o", " ", "m", "e", "e", "t", " ", "y", "o", "u">>

Monitored == last.op = "monitor_messages" /\ last.checked

Scanned == last.op = "scan_group" /\ last.scanned

\* C1: the risk score calculate_risk_score returns for any non-negative risk
\* factors, and the risk score in the result of every scan, lies in 0..100.
RiskScoreInRange ==
    /\ probe.pc = "done" => probe.risk_factors.risk_score \in 0..100
    /\ Scanned => last.risk_factors.risk_score \in 0..100

\* C1 witness: a scan whose weights sum to more than 100 and whose score is 100.
ScanScoreClamped ==
    /\ Scanned
    /\ raw_score(last.risk_factors) > 100
    /\ last.risk_factors.risk_score = 100

\* C2: after a scan whose UPDATE of a recorded group succeeded, the stored
\* status is the one the score of that scan alone gives (risk above 70,
\* warning above 30, safe otherwise), whatever the status was before.
StatusIsFunctionOfScore ==
    (/\ Scanned
     /\ Has(last.calls, Call("update_groups", "ok"))
     /\ groups[last.chat].present)
    => groups[last.chat].status =
         (IF last.risk_factors.risk_score > 70 THEN "risk"
          ELSE IF last.risk_factors.risk_score > 30 THEN "warning"
          ELSE "safe")

\* C2 witness: a scan that took a group stored as 'warning' back to 'safe'.
StatusMovedBackToSafe ==
    /\ Scanned
    /\ Has(last.calls, Call("update_groups", "ok"))
    /\ groups[last.chat].present
    /\ last.before = "warning"
    /\ groups[last.chat].status = "safe"

\* C3 (as the claim states it): when the recent alerts are the only non-zero
\* risk factor, the score stays at or below 70 and the status is not 'risk'.
AlertsAloneStayBelowHigh ==
    (/\ probe.pc = "done"
     /\ probe.risk_factors.suspicious_members = << >>
     /\ probe.risk_factors.recent_joins = 0
     /\ probe.risk_factors.bot_count = 0
     /\ probe.risk_factors.admin_issues = 0)
    => probe.risk_factors.risk_score <= 70 /\ probe.status # "risk"

\* C4 (as the claim states it): once monitor_messages has processed a message
\* it rates high risk, the stored status of the group is 'risk'.  Stated for
\* a recorded group whose status a scan has stored.
StatusFollowsMessage ==
    (/\ Monitored
     /\ Has(last.patterns, "violent_content")
     /\ groups[last.chat].present
     /\ groups[last.chat].last_scan)
    => groups[last.chat].status = "risk"

\* C5 (as the claim states it): every checked message with a detected pattern
\* leaves both a stored alert row and a notification sent to the owner.
AlertAndNotificationTogether ==
    (Monitored /\ last.patterns # << >>)
    => /\ Has(last.calls, Call("insert_alert", "ok"))
       /\ Has(last.calls, Call("send_owner", "ok"))

\* C5 (amended): for a checked message with a detected pattern, the alert row
\* is stored exactly when the activity insert and then the alert insert both
\* succeed; the notification is attempted exactly when the owner id is not 0,
\* whatever the inserts did; and when the owner id is not 0 and no call
\* fails, the alert is stored and the notification is sent.
AlertAndNotificationPerOutcome ==
    [][(last'.op = "monitor_messages" /\ last'.checked /\ last'.patterns # << >>)
       => LET calls == last'.calls
              stored == /\ Len(alerts') = Len(alerts) + 1
                        /\ alerts'[Len(alerts')].group_id = last'.chat
              attempted == \E i \in 1..Len(calls) : calls[i].call = "send_owner"
              failed == \E i \in 1..Len(calls) : calls[i].out # "ok"
          IN  /\ stored <=> /\ Has(calls, Call("insert_activity", "ok"))
                            /\ Has(calls, Call("insert_alert", "ok"))
              /\ ~stored => alerts' = alerts
              /\ attempted <=> owner_id # 0
              /\ (owner_id # 0 /\ ~failed)
                    => stored /\ Has(calls, Call("send_owner", "ok"))]_vars

\* C5 witness: a flagged message whose alert is stored and whose notification
\* is sent.
AlertStoredAndOwnerNotified ==
    /\ Monitored /\ last.patterns # << >>
    /\ alerts # << >> /\ alerts[Len(alerts)].group_id = last.chat
    /\ Has(last.calls, Call("insert_alert", "ok"))
    /\ Has(last.calls, Call("send_owner", "ok"))

\* C6: a checked message in which no pattern is detected ("hello, nice to
\* meet you" is one) stores no activity and no alert, sends nothing to the
\* owner and leaves the groups table as it was.
CleanMessageChangesNothing ==
    [][(last'.op = "monitor_messages" /\ last'.checked)
       => /\ last'.message.text = HelloText => last'.patterns = << >>
          /\ last'.patterns = << >>
                => /\ activities' = activities
                   /\ alerts' = alerts
                   /\ groups' = groups
                   /\ last'.calls = << >>]_vars

\* C6 witness: "hello, nice to meet you" checked in a recorded group.
HelloMessageChecked ==
    /\ Monitored
    /\ last.message.text = HelloText
    /\ groups[last.chat].present
    /\ last.calls = << >>

\* C7 (as the claim states it): a high-risk message in a chat where the bot
\* may moderate is deleted and the sender's warning count is incremented.
HighRiskMessageModerated ==
    (/\ Monitored
     /\ Has(last.patterns, "violent_content")
     /\ last.can_moderate)
    => /\ \E i \in 1..Len(last.calls) : last.calls[i].call = "delete_message"
       /\ \E i \in 1..Len(last.calls) : last.calls[i].call = "increment_warning"

\* C8 (as the claim states it): excessive_caps is reported exactly when the
\* message text is longer than 10 characters and more than 70% of its
\* characters are uppercase.
ExcessiveCapsByShare ==
    (probe.pc = "done" /\ ~probe.message.text_none)
    => (Has(probe.patterns, "excessive_caps")
        <=> /\ Len(probe.message.text) > 10
            /\ 10 * UpperCount(probe.message.text) > 7 * Len(probe.message.text))

\* C9 (as the claim states it): repetitive_content is reported exactly when
\* the text splits into 20 or more whitespace-delimited tokens of which
\* fewer than 10 are distinct.
RepetitiveByTokenCount ==
    (probe.pc = "done" /\ ~probe.message.text_none)
    => (Has(probe.patterns, "repetitive_content")
        <=> /\ Cardinality(TokenStarts(probe.message.text)) >= 20
            /\ Cardinality(SplitSet(probe.message.text)) < 10)

\* C10: spam_links (violent_content) is reported exactly when a suspicious
\* keyword (a violent word) occurs in the text as a substring, letter case
\* ignored; a message with no text or an empty text yields no signal.
KeywordSignalsBySubstring ==
    probe.pc = "done"
    => LET text == probe.message.text
       IN  /\ (probe.message.text_none \/ text = << >>) => probe.patterns = << >>
           /\ ~probe.message.text_none
                => /\ Has(probe.patterns, "spam_links")
                        <=> \E k \in 1..Len(suspicious_keywords) :
                                OccursIn(suspicious_keywords[k], text)
                   /\ Has(probe.patterns, "violent_content")
                        <=> \E k \in 1..Len(violent_words) :
                                OccursIn(violent_words[k], text)

\* C10 witness: 'Skill', in which 'kill' is no word of its own, is reported
\* as violent_content.
SkillReportedAsViolent ==
    /\ probe.pc = "done"
    /\ probe.message.text = <<"S", "k", "i", "l", "l">>
    /\ Has(probe.patterns, "violent_content")

OneMore(risk_factors) ==
    { [risk_factors EXCEPT !.suspicious_members = Append(@, SomeMember)],
      [risk_factors EXCEPT !.recent_joins = @ + 1],
      [risk_factors EXCEPT !.bot_count = @ + 1],
      [risk_factors EXCEPT !.admin_issues = @ + 1],
      [risk_factors EXCEPT !.recent_alerts = @ + 1] }

\* C12: with the other factors fixed, one more suspicious member, recent
\* join, bot, admin issue or recent alert never lowers the score that
\* calculate_risk_score returned.
ScoreMonotone ==
    probe.pc = "done"
    => \A more \in OneMore(probe.risk_factors) :
          calculate_risk_score(more) >= probe.risk_factors.risk_score

\* C12 witness: a score below the clamp that a sixth bot raises while
\* another recent join leaves it as it is.
ScoreRaisedByOneMoreBot ==
    /\ probe.pc = "done"
    /\ probe.risk_factors.bot_count = 5
    /\ probe.risk_factors.risk_score < 100
    /\ calculate_risk_score([probe.risk_factors EXCEPT !.bot_count = @ + 1])
          > probe.risk_factors.risk_score
    /\ calculate_risk_score([probe.risk_factors EXCEPT !.recent_joins = @ + 1])
          = probe.risk_factors.risk_score

\* C14: monitor_messages raises nothing whatever fails; after any handler,
\* also one that an exception left, the dispatcher takes the next update,
\* and then a scan and a message of any chat can be handled again.
EventErrorsIsolated ==
    /\ last.op = "monitor_messages" => ~last.raised
    /\ last # NoUpdate => ENABLED Return
    /\ (last = NoUpdate /\ probe = ProbeOff)
          => \A chat \in Groups :
                /\ ENABLED (\E env \in ScanEnvs : scan_group(chat, env))
                /\ ENABLED (\E env \in MonitorEnvs : monitor_messages(chat, env))

\* C14 witness: a scan whose error reply failed too, so that the exception
\* left scan_group.
ExceptionLeftScanGroup ==
    /\ last.op = "scan_group"
    /\ last.raised
    /\ Has(last.calls, Call("reply_error", "error"))

ConfigMissing(environ) ==
    \/ \E var \in {environ.BOT_TOKEN, environ.DATABASE_URL, environ.OWNER_ID} :
          ~var.set \/ Len(var.value) = 0
    \/ \E i \in 1..Len(environ.OWNER_ID.value) :
          environ.OWNER_ID.value[i] \notin {"0", "1", "2", "3", "4", "5", "6", "7", "8", "9"}

\* C15: with BOT_TOKEN, DATABASE_URL or OWNER_ID unset or empty, or with an
\* OWNER_ID that is no integer, the construction of the bot ends the process:
\* it takes no further step, and no update is handled before or after.
MissingConfigIsFatal ==
    [][/\ (probe.pc = "start" /\ ConfigMissing(probe.environ))
            => probe'.pc = "exited"
       /\ probe.pc # "exited"
       /\ probe.pc \in {"start", "constructed"}
            => /\ last' = NoUpdate
               /\ <<groups', activities', alerts'>> = <<groups, activities, alerts>>]_vars

\* C15 witness: the process ended on an OWNER_ID that is no integer.
ExitedOnMalformedOwnerId ==
    /\ probe.pc = "exited"
    /\ probe.environ.BOT_TOKEN = SetTo(<<"x">>)
    /\ probe.environ.DATABASE_URL = SetTo(<<"x">>)
    /\ probe.environ.OWNER_ID = SetTo(<<"1", "2", "x">>)
    /\ last = NoUpdate

\* C16 (as the claim states it, for the permission lookup): when the lookup of
\* the bot's permissions fails during a scan, for whatever reason, the score
\* of the scan includes the admin-issue penalty, so it is 10 or more.
FailedPermissionLookupPenalised ==
    (/\ Scanned
     /\ \E i \in 1..Len(last.calls) :
           last.calls[i].call = "get_member" /\ last.calls[i].out # "ok")
    => last.risk_factors.risk_score >= 10

\* C17 (as the claim states it): after a completed scan of a group chat whose
\* UPDATE succeeded, a record of the group exists with the status of that
\* scan, and /status would report it rather than 'Group not monitored'.
ScanCreatesGroupRecord ==
    (Scanned /\ Has(last.calls, Call("update_groups", "ok")))
    => /\ groups[last.chat].present
       /\ status_msg(last.chat).text = "Group Status"

\* C18 (as the claim states it): once track_new_chat has handled the bot's
\* membership in a recorded group changing to left or banned, the record is
\* kept, is marked inactive and is not among the groups the owner is listed.
LeavingDeactivatesGroup ==
    (/\ last.op = "track_new_chat"
     /\ last.new_status \in {"left", "kicked"}
     /\ groups[last.chat].present)
    => /\ ~groups[last.chat].is_active
       /\ last.chat \notin active_groups

\* C19 (as the claim states it): every stored alert has the group id of a
\* group for which a record exists.
AlertsReferenceGroups ==
    \A i \in 1..Len(alerts) : groups[alerts[i].group_id].present

\* C20: two /scan updates of one group are never in their handlers at the
\* same time, and the status and member count stored for a group are those
\* of the most recently collected risk factors among the scans that stored
\* theirs: no scan overwrites the result of a later collection.
ScansOfGroupSerialized ==
    probe.pc = "polling" =>
        \A g \in Groups :
            /\ Cardinality({u \in Running(probe.tasks) : probe.tasks[u].chat = g}) <= 1
            /\ probe.stored[g].seq > 0 =>
                    /\ groups[g].status = probe.stored[g].status
                    /\ groups[g].member_count = probe.stored[g].member_count

\* Two scans of one group have stored their results one after the other, and
\* the second changed the status.
SecondScanStored ==
    /\ probe.pc = "polling"
    /\ probe.writes = 2
    /\ \E g \in Groups :
            /\ probe.stored[g].seq = 2
            /\ probe.before # groups[g].status
            /\ groups[g].status = probe.stored[g].status

SendsToOwner(calls) == Len(SelectSeq(calls, LAMBDA c : c.call = "send_owner"))

\* C21: the one call of send_alert_to_owner that monitor_messages makes for a
\* flagged message sends to the owner at most twice and raises nothing, and
\* after a failed alert for an added group (the send to the owner made
\* before the welcome message) track_new_chat still sends its welcome
\* message and raises nothing.
AlertDeliveryBestEffort ==
    /\ (last.op = "monitor_messages" /\ last.checked /\ is_flagged(last.patterns)) =>
            /\ SendsToOwner(last.calls) <= 2
            /\ ~last.raised
    /\ (/\ last.op = "track_new_chat"
        /\ Has(last.calls, Call("upsert_group", "ok"))) =>
            /\ \A i \in 1..Len(last.calls) :
                    (/\ last.calls[i] = Call("send_owner", "error")
                     /\ \A h \in 1..(i - 1) : last.calls[h].call # "send_welcome")
                    => \E j \in (i + 1)..Len(last.calls) :
                            last.calls[j].call = "send_welcome"
            /\ ~last.raised

\* The alert for a flagged message could not be delivered.
AlertSendFailed ==
    /\ last.op = "monitor_messages" /\ last.checked /\ is_flagged(last.patterns)
    /\ Has(last.calls, Call("send_owner", "error"))
    /\ SendsToOwner(last.calls) = 1
    /\ ~last.raised

\* C22 (as the claim states it): the owner receives one notification for a
\* suspicious message event, not two: no two notifications sent have the
\* same group, sender, content and patterns.
NotificationsDeduplicated ==
    probe.pc = "outbox" =>
        \A i, j \in 1..Len(probe.outbox) :
            probe.outbox[i] = probe.outbox[j] => i = j

\* C23 (as the claim states it): a text message that is no command is handed
\* to monitor_messages when it is posted in a group, a supergroup or a
\* channel, and no message of a private chat and no command is.
GroupTextRoutedToMonitor ==
    probe.pc = "routed" =>
        LET update == probe.update
            plain_text == /\ ~update.message.text_none
                          /\ update.message.text # << >>
                          /\ update.message.text[1] # "/"
        IN  (probe.callback = "monitor_messages")
                <=> (plain_text /\ update.chat_type \in {"group", "supergroup", "channel"})

Refusal == [text |-> "This command is only available for the bot owner."]

\* C24: /groups and /alerts from a caller whose id is not OWNER_ID make no
\* database query, reply with the owner-only refusal, and show nothing
\* stored, whatever was stored by the updates handled before.
OwnerOnlyDisclosure ==
    (last.op \in {"list_groups", "show_alerts"} /\ last.caller # owner_id) =>
        /\ \A i \in 1..Len(last.calls) : last.calls[i].call # "select"
        /\ last.calls[1].call = "reply_text"
        /\ last.calls[1].out = "ok" => last.reply = Refusal
        /\ last.reply.text \notin {"Monitored Groups", "Recent Alerts",
                                   "No groups are being monitored yet.",
                                   "No recent alerts."}

\* A caller who is not the owner asked for the alerts while one was stored.
StrangerRefusedAlerts ==
    /\ last.op = "show_alerts"
    /\ last.caller # owner_id
    /\ joined_alerts # << >>
    /\ last.reply = Refusal

AllOperational(outcomes) ==
    \A i \in 1..Len(outcomes) : outcomes[i] = "operational_error"

\* C25: get_connection makes at most three connection attempts; it returns
\* the connection of the first attempt that succeeds, every attempt before
\* the last one made failed with an operational error, and it raises exactly
\* after a third operational failure or at the first other error.
ConnectionAttemptsBounded ==
    probe.pc \in {"idle", "connecting", "connected"} =>
        /\ Len(probe.outcomes) <= max_retries
        /\ probe.pc = "connecting" =>
                /\ Len(probe.outcomes) < max_retries
                /\ AllOperational(probe.outcomes)
        /\ \A k \in 1..Len(probe.log) :
            LET outcomes == probe.log[k].outcomes
                n == Len(outcomes)
                connected == probe.log[k].result # "not_connected"
            IN  /\ n \in 1..max_retries
                /\ AllOperational(SubSeq(outcomes, 1, n - 1))
                /\ connected <=> outcomes[n] = "ok"
                /\ ~connected =>
                        \/ outcomes[n] = "error"
                        \/ outcomes[n] = "operational_error" /\ n = max_retries

\* A connection was returned by the third attempt, and another call raised
\* after three operational failures.
ThirdAttemptConnected ==
    /\ probe.pc = "idle"
    /\ \E k \in 1..Len(probe.log) :
            probe.log[k].outcomes = <<"operational_error", "operational_error", "ok">>
    /\ \E k \in 1..Len(probe.log) :
            /\ probe.log[k].result = "not_connected"
            /\ probe.log[k].outcomes =
                    <<"operational_error", "operational_error", "operational_error">>

\* C26 (as the claim states it): after a scan in which listing the members
\* failed with a platform error, the admin_issues the score is computed from
\* count that failure: they are at least one, and at least two when the
\* permission lookup failed as well.
FailedEnumerationCounted ==
    (/\ last.op = "scan_group" /\ last.scanned
     /\ Has(last.calls, Call("get_members", "telegram_error"))
     /\ \E i \in 1..Len(last.calls) : last.calls[i].call = "select_alerts") =>
        /\ last.risk_factors.admin_issues >= 1
        /\ Has(last.calls, Call("get_member", "telegram_error")) =>
                last.risk_factors.admin_issues >= 2
        /\ last.risk_factors.risk_score >= 10

LabelOf(status) ==
    IF status = "risk" THEN "HIGH RISK"
    ELSE IF status = "warning" THEN "WARNING"
    ELSE "SAFE"

ReportShown == Scanned /\ last.report # "none" /\ groups[last.chat].present

\* C27 (as the claim states it): after a scan that showed its report for a
\* recorded group, the stored status agrees with the label of the report,
\* whether or not a storage call failed.
ReportAgreesWithStoredStatus ==
    ReportShown => LabelOf(groups[last.chat].status) = last.report

\* C27 (amended): after a scan that showed its report for a recorded group,
\* the stored status agrees with the label of the report when the UPDATE of
\* update_group_status succeeded, a failed count of recent alerts included;
\* when the UPDATE failed the stored status is the one from before the scan.
ReportAgreesWhenStored ==
    ReportShown =>
        IF Has(last.calls, Call("update_groups", "ok"))
        THEN LabelOf(groups[last.chat].status) = last.report
        ELSE groups[last.chat].status = last.before

\* The report of a scan shows a warning or a high risk and the status
\* stored is the 'safe' from before, the UPDATE having failed.
ReportAheadOfStoredStatus ==
    /\ ReportShown
    /\ Has(last.calls, Call("update_groups", "error"))
    /\ last.report \in {"WARNING", "HIGH RISK"}
    /\ groups[last.chat].status = "safe"

AlertStoredNow == Monitored /\ Has(last.calls, Call("insert_alert", "ok"))

\* C28: the alert stored for a flagged message is 'high' exactly when
\* 'violent_content' is among the detected patterns and 'medium' otherwise,
\* and the activity stored with it is 'high_risk' exactly when the alert is
\* 'high' and 'suspicious' otherwise.
AlertLevelFollowsViolence ==
    AlertStoredNow =>
        LET alert == alerts[Len(alerts)]
            activity == activities[Len(activities)]
            violent == Has(last.patterns, "violent_content")
        IN  /\ alert.risk_level = IF violent THEN "high" ELSE "medium"
            /\ activity.risk_level = IF alert.risk_level = "high"
                                     THEN "high_risk" ELSE "suspicious"

\* A message with a spam link and no violent word was stored as a 'medium'
\* alert.
SpamStoredAsMedium ==
    /\ AlertStoredNow
    /\ Has(last.patterns, "spam_links")
    /\ ~Has(last.patterns, "violent_content")
    /\ alerts[Len(alerts)].risk_level = "medium"
    /\ activities[Len(activities)].risk_level = "suspicious"

Upserted ==
    /\ last.op = "track_new_chat"
    /\ Has(last.calls, Call("upsert_group", "ok"))

\* The upsert just made, made once more with the same title and count,
\* changes nothing.
SameWhenRepeated ==
    add_group_to_database(last.chat, groups[last.chat].group_name,
                          groups[last.chat].member_count) = groups

\* C29: when the bot is added to a group that has a record, the record is
\* made active, takes the chat's title and member count, and keeps its
\* status and last-scan time; no other record changes, and the same upsert
\* made again changes nothing.
ReaddIsIdempotentUpsert ==
    [][(Upserted' /\ groups[last'.chat].present) =>
        LET chat == last'.chat
        IN  /\ groups'[chat].present /\ groups'[chat].is_active
            /\ \E title \in Titles, member_count \in MemberCounts \cup {0} :
                    groups' = [groups EXCEPT ![chat] =
                                  [@ EXCEPT !.group_name = title,
                                            !.member_count = member_count,
                                            !.is_active = TRUE]]
            /\ groups'[chat].status = groups[chat].status
            /\ groups'[chat].last_scan = groups[chat].last_scan
            /\ SameWhenRepeated']_vars

\* The bot was added again to a scanned group that is not 'safe' and has
\* another title now.
ReaddedAfterScan ==
    /\ Upserted
    /\ groups[last.chat].last_scan
    /\ groups[last.chat].status # "safe"
    /\ groups[last.chat].group_name = "Rocky II"

\* C30: whenever run has ended with an exception that is no keyboard
\* interrupt, run is called again unless the user interrupts the wait, as
\* often as that happens; the process has ended only after a keyboard
\* interrupt or after a configuration error while the bot was constructed.
SupervisionLoopRestarts ==
    /\ (probe.pc = "crashed") ~> (probe.pc \in {"constructed", "stopped"})
    /\ [](~ENABLED NextSupervise =>
            \/ probe.pc = "stopped"
            \/ probe.pc = "exited" /\ load_config(probe.environ).raised)
    /\ [][(probe'.pc = "stopped") => (probe.pc \in {"constructed", "crashed"})]_vars
    /\ [][(probe.pc = "crashed" /\ probe'.pc # "stopped") =>
                probe'.pc = "constructed"]_vars

\* run ended with an exception and the loop waits to call it again.
RunCrashed == probe.pc = "crashed"

====
